---- MODULE Spec2Model ----
(***************************************************************************)
(* A model of docser's search path: BrowserManager::search_android_dev     *)
(* (src/src/browser.rs, lines 128-390; SimpleServer::search_android_dev in *)
(* src/src/main.rs, lines 307-582, is the same code line for line).        *)
(*                                                                         *)
(* One call is modelled.  Every await of the code is a step; the browser   *)
(* engine is the environment, and each of its answers (a navigation        *)
(* response, a script result, a click) is drawn nondeterministically.      *)
(*                                                                         *)
(* Spec      one search call, from the search_android handler to its reply *)
(* SpecCrawl one crawl call, from the crawl_url handler to its reply       *)
(*           (BrowserManager::scrape_page, src/src/browser.rs 32-126)      *)
(* SpecEngine concurrent calls on one server sharing the engine handle     *)
(*           (BrowserManager::get_playwright, src/src/browser.rs 21-30)    *)
(* Each specification moves its own variables and holds the others fixed.  *)
(***************************************************************************)
EXTENDS Integers, Sequences, FiniteSets, TLC

VARIABLES
    pc,                \* position of the call in search_android_dev
    max_page,          \* the max_page argument
    attempt,           \* loop variable of `for attempt in 1..=3`
    tick,              \* iterations completed of the poll loop being run
    ready,             \* `ready` of the readiness poll
    links,             \* `links`: the running result
    seen,              \* `seen`: the per-attempt HashSet of hrefs
    page_num,          \* loop variable of `for page_num in 2..=max_page`
    page_loaded,       \* `page_loaded`
    displayed_page,    \* the page .gsc-cursor-current-page shows once a page is verified
    loading_detected,  \* `loading_detected`
    result,            \* what the call returned
    dom,               \* the anchors the last link query matched
    log,               \* per navigation: the response class, the backoff slept after it
    extracted,         \* the link query of page 1 has run in this attempt
    indicator_seen,    \* some readiness probe of this call answered true
    anchors_seen,      \* some link query of this call matched an anchor
    eval_failure,      \* which script evaluation failed, if the last one made did
    origin,            \* origin[i]: the navigation after which links[i] was gathered
    envelope,          \* what the tool handler returned to the transport
    \* one crawl call
    cpc,               \* position of the call in crawl_url / scrape_page
    poll_attempt,      \* loop variable of `for attempt in 0..(max_wait_ms / check_interval_ms)`
    indicator,         \* position of `for indicator in &ready_indicators`
    page_ready,        \* `page_ready`
    html,              \* `html`: what the serialisation script returned
    cresult,           \* what scrape_page returned
    navigations,       \* per page.goto of the crawl call: the response class
    polled,            \* the crawl call has evaluated a readiness script
    sleeps,            \* sleeps taken by the crawl call, by kind
    \* the shared engine handle
    instance,          \* content of `instance`: the Mutex<Option<Arc<Playwright>>>
    lock_owner,        \* the call that holds the mutex guard `pw_lock`, or NoCall
    call_pc,           \* call_pc[c]: position of call c
    call_pw,           \* call_pw[c]: `playwright` of call c
    launches,          \* Playwright::launch calls made so far, in order: who made each
    waited,            \* the calls that have waited for the lock during a construction
    \* one call of extract_content
    ext_pc,            \* position of the call in extract_content
    ext_html,          \* the argument `html`
    ext_article,       \* `article.content`: what the readability library answers for it
    ext_content,       \* the String returned
    ext_tier,          \* the return statement that returned it
    ext_framework,     \* position in FRAMEWORKS of the `framework` that returned it, or 0
    \* two search calls on one server
    site,              \* the result pages the site serves for the query
    call_at,           \* call_at[c]: position of search call c
    call_seen,         \* the HashSets `seen`, by cell
    call_links,        \* call_links[c]: `links` of search call c
    call_pages         \* call_pages[c]: result pages call c has queried

search_vars == <<pc, max_page, attempt, tick, ready, links, seen, page_num,
                 page_loaded, displayed_page, loading_detected, result, dom, log, extracted,
                 indicator_seen, anchors_seen, eval_failure, origin>>

crawl_vars == <<cpc, poll_attempt, indicator, page_ready, html, cresult,
                navigations, polled, sleeps>>

engine_vars == <<instance, lock_owner, call_pc, call_pw, launches, waited>>

extract_vars == <<ext_pc, ext_html, ext_article, ext_content, ext_tier, ext_framework>>

searches_vars == <<site, call_at, call_seen, call_links, call_pages>>

vars == <<search_vars, envelope, crawl_vars, engine_vars, extract_vars, searches_vars>>

(***************************************************************************)
(* Bounds of the exploration.                                              *)
(***************************************************************************)
MaxPageArg == 3    \* largest max_page argument tried
MaxAnchors == 2    \* most anchors one selector query matches

(***************************************************************************)
(* Program constants.                                                      *)
(***************************************************************************)
FirstAttempt == 1
LastAttempt == 3               \* for attempt in 1..=3
FinalAttemptOneEarly == LastAttempt - 1
FinalAttemptNever == LastAttempt + 1
FinalAttempt == 3              \* if attempt == 3
HttpErrorSleepSecs == 1        \* sleep(from_secs(1)) after a non-ok response
max_wait_ms == 10000
check_interval_ms == 250
max_pagination_wait_doubled == 2 * max_wait_ms
max_pagination_wait_ms == 10000
pagination_check_interval_ms == 250
loading_start_wait_ms == 2000
FirstExtraPage == 2            \* for page_num in 2..=max_page

(***************************************************************************)
(* Strings.  A string is a sequence of pieces, so that starts_with and     *)
(* trim are computed and not assumed.                                      *)
(***************************************************************************)
RequiredPrefix == <<"https:", "//developer.android.com/">>

Hrefs == { <<"https:", "//developer.android.com/", "a">>,
           <<"https:", "//developer.android.com/", "b">>,
           <<"https:", "//example.com/", "a">> }

TextContents == { <<" ">>, <<" ", "x", " ">> }

\* str::starts_with
StartsWith(s, p) == Len(s) >= Len(p) /\ SubSeq(s, 1, Len(p)) = p

\* String.prototype.trim
RECURSIVE TrimStart(_)
TrimStart(s) == IF s # <<>> /\ Head(s) = " " THEN TrimStart(Tail(s)) ELSE s

RECURSIVE TrimEnd(_)
TrimEnd(s) ==
    IF s # <<>> /\ s[Len(s)] = " " THEN TrimEnd(SubSeq(s, 1, Len(s) - 1)) ELSE s

Trim(s) == TrimEnd(TrimStart(s))

\* u64::pow with base 2
RECURSIVE Pow2(_)
Pow2(n) == IF n = 0 THEN 1 ELSE 2 * Pow2(n - 1)

\* page_num.to_string()
Digits == <<"1", "2", "3", "4", "5", "6", "7", "8", "9">>
PageNumToString(n) == Digits[n]

(***************************************************************************)
(* The page as the engine shows it to a selector query: a list of anchors. *)
(***************************************************************************)
Anchors == [href : Hrefs, textContent : TextContents]

RECURSIVE SeqsUpTo(_, _)
SeqsUpTo(S, n) ==
    IF n = 0 THEN { <<>> }
    ELSE LET shorter == SeqsUpTo(S, n - 1)
         IN  shorter \cup { Append(q, x) : q \in shorter, x \in S }

Doms == SeqsUpTo(Anchors, MaxAnchors)

\* What an evaluate_value call can come to: a value, an engine error, or a
\* value that does not deserialize.
EvalOutcomes == { "value", "error", "malformed" }

(***************************************************************************)
(* The scripts handed to the engine.                                       *)
(***************************************************************************)
\* Array.from(querySelectorAll(...)).map(a => ({href, text: textContent.trim()}))
PrimaryScript(d) ==
    [i \in 1..Len(d) |-> [href |-> d[i].href, text |-> Trim(d[i].textContent)]]

\* .filter(a => a.href.startsWith(prefix) && a.textContent.trim())
\* .reduce((acc, a) => { if (!acc.some(item => item.href === a.href)) acc.push(..) })
RECURSIVE FallbackReduce(_, _, _)
FallbackReduce(d, i, acc) ==
    IF i > Len(d) THEN acc
    ELSE LET a == d[i]
             passes == StartsWith(a.href, RequiredPrefix) /\ Trim(a.textContent) # <<>>
             some == \E k \in 1..Len(acc) : acc[k].href = a.href
         IN  IF passes /\ ~some
             THEN FallbackReduce(d, i + 1,
                      Append(acc, [href |-> a.href, text |-> Trim(a.textContent)]))
             ELSE FallbackReduce(d, i + 1, acc)

FallbackScript(d) == FallbackReduce(d, 1, <<>>)

\* evaluate_value(..).unwrap_or("[]") then serde_json::from_str(..).unwrap_or(Vec::new())
DeliveredAnyway(outcome, value) == value
Delivered(outcome, value) == IF outcome = "value" THEN value ELSE <<>>

(***************************************************************************)
(* The Rust filter: prefix, non-empty text, seen.insert(href).             *)
(***************************************************************************)
AcceptNoPrefix(l, s) == l.text # <<>> /\ l.href \notin s
Accept(l, s) ==
    /\ StartsWith(l.href, RequiredPrefix)
    /\ l.text # <<>>
    /\ l.href \notin s

RECURSIVE FilterFrom(_, _, _, _)
FilterFrom(batch, i, acc, s) ==
    IF i > Len(batch) THEN [kept |-> acc, seen |-> s]
    ELSE IF Accept(batch[i], s)
         THEN FilterFrom(batch, i + 1, Append(acc, batch[i]), s \cup {batch[i].href})
         ELSE FilterFrom(batch, i + 1, acc, s)

FilterDedup(batch, s) == FilterFrom(batch, 1, <<>>, s)

\* Vec::extend
ExtendFront(ls, more) == more \o ls
Extend(ls, more) == ls \o more

(***************************************************************************)
(* The per-attempt log.                                                    *)
(***************************************************************************)
\* resp: "error" (goto failed), "not_ok" (a response that is not ok), or
\* "passed" (an ok response, or no response object: the check lets both through)
NewEntry(r) == [resp |-> r, backoff |-> 0]

\* tokio::time::sleep(Duration::from_secs(secs)) between two navigations
Slept(secs) == [log EXCEPT ![attempt].backoff = @ + secs]

Pending == [kind |-> "Pending", msg |-> "", links |-> <<>>]
Ok(ls) == [kind |-> "Ok", msg |-> "", links |-> ls]
Err(m) == [kind |-> "Err", msg |-> m, links |-> <<>>]

\* the same for scrape_page, whose Ok carries the markdown; a panic unwinds
\* the handler's future and returns nothing
CrawlOk(md) == [kind |-> "Ok", msg |-> "", markdown |-> md]
CrawlErr(m) == [kind |-> "Err", msg |-> m, markdown |-> <<>>]
CrawlPanic(m) == [kind |-> "Panic", msg |-> m, markdown |-> <<>>]
CrawlPending == [kind |-> "Pending", msg |-> "", markdown |-> <<>>]

\* Result<CallToolResult, McpError> of a tool handler
NoEnvelope == [kind |-> "none", text |-> <<>>]
\* Ok(CallToolResult::success(vec![Content::text(t)])); Err(McpError) is the
\* other value of the type, which no handler builds
McpErrorEnvelope(t) == [kind |-> "error", text |-> t]
Success(t) == [kind |-> "success", text |-> t]
\* format!("Error: {}", e)
ErrorText(m) == <<"Error: ", m>>

NoCall == 0
\* `html` before the serialisation script has answered
NoHtml == <<[node |-> "text", text |-> "unread"]>>

\* the variables of the crawl call and of the engine handle, at rest
CrawlAtRest ==
    /\ cpc = "idle"
    /\ poll_attempt = 0
    /\ indicator = 0
    /\ page_ready = FALSE
    /\ html = NoHtml
    /\ cresult = CrawlPending
    /\ navigations = <<>>
    /\ polled = FALSE
    /\ sleeps = [interval |-> 0, settle |-> 0]

EngineAtRest ==
    /\ instance = <<>>
    /\ lock_owner = NoCall
    /\ call_pc = <<>>
    /\ call_pw = <<>>
    /\ launches = <<>>
    /\ waited = {}

\* no pair of search calls is running
SearchesAtRest ==
    /\ site = <<>>
    /\ call_at = <<>>
    /\ call_seen = <<>>
    /\ call_links = <<>>
    /\ call_pages = <<>>

\* extract_content is not being called
ExtractAtRest ==
    /\ ext_pc = "idle"
    /\ ext_html = NoHtml
    /\ ext_article = <<>>
    /\ ext_content = NoHtml
    /\ ext_tier = "none"
    /\ ext_framework = 0

Init ==
    /\ envelope = NoEnvelope
    /\ CrawlAtRest
    /\ EngineAtRest
    /\ ExtractAtRest
    /\ SearchesAtRest
    /\ pc = "acquire"
    /\ max_page \in 0..MaxPageArg
    /\ attempt = 0
    /\ tick = 0
    /\ ready = FALSE
    /\ links = <<>>
    /\ seen = {}
    /\ page_num = 0
    /\ page_loaded = FALSE
    /\ displayed_page = 0
    /\ loading_detected = FALSE
    /\ result = Pending
    /\ dom = <<>>
    /\ log = <<>>
    /\ extracted = FALSE
    /\ indicator_seen = FALSE
    /\ anchors_seen = FALSE
    /\ eval_failure = "none"
    /\ origin = <<>>

(***************************************************************************)
(* Loop control of `for attempt in 1..=3`.                                 *)
(***************************************************************************)
NextAttemptStuck(a) == a
NextAttempt(a) == a + 1

\* `continue`, or falling off the end of the loop body: the next iteration
\* if the range has one, else the code after the loop.  `seen` is a local of
\* the loop body and ends with it.
LoopNext ==
    /\ attempt' = NextAttempt(attempt)
    /\ pc' = IF NextAttempt(attempt) <= LastAttempt THEN "goto" ELSE "post_loop"
    /\ seen' = {}
    /\ page_num' = 0
    /\ page_loaded' = FALSE
    /\ displayed_page' = 0
    /\ loading_detected' = FALSE
    /\ ready' = FALSE

\* `return Err(..)` and `?`
Return(r) ==
    /\ pc' = "done"
    /\ result' = r

\* get_playwright().await?, webkit().launch().await?, new_page().await?
Acquire ==
    /\ pc = "acquire"
    /\ \E ok \in BOOLEAN :
          IF ok
          THEN /\ pc' = "goto"
               /\ attempt' = FirstAttempt
               /\ UNCHANGED result
          ELSE /\ Return(Err("engine"))
               /\ UNCHANGED attempt
    /\ UNCHANGED <<envelope, crawl_vars, engine_vars, extract_vars, searches_vars>>
    /\ UNCHANGED <<max_page, tick, ready, links, seen, page_num, page_loaded, displayed_page,
                   loading_detected, dom, log, extracted, indicator_seen,
                   anchors_seen, eval_failure,
                   origin>>

\* the `?` on page.goto(..).await: an Err from the navigation leaves the call
GotoFailureIgnored(r) == FALSE
GotoFailed(r) == r = "error"

\* page.goto(..).await? and the response check that follows it
Goto ==
    /\ pc = "goto"
    /\ \E r \in { "error", "none", "ok", "not_ok" } :
          /\ log' = Append(log, NewEntry(IF r \in {"ok", "none"} THEN "passed" ELSE r))
          /\ CASE GotoFailed(r) ->
                     /\ Return(Err("goto"))
                     /\ UNCHANGED <<tick, ready>>
               [] r = "not_ok" /\ attempt = FinalAttempt ->
                     /\ Return(Err("HTTP error"))
                     /\ UNCHANGED <<tick, ready>>
               [] r = "not_ok" /\ attempt # FinalAttempt ->
                     /\ pc' = "http_sleep"
                     /\ UNCHANGED <<result, tick, ready>>
               [] OTHER ->
                     /\ pc' = "poll"
                     /\ tick' = 0
                     /\ ready' = FALSE
                     /\ UNCHANGED result
    /\ extracted' = FALSE
    /\ UNCHANGED <<envelope, crawl_vars, engine_vars, extract_vars, searches_vars>>
    /\ UNCHANGED <<max_page, attempt, links, seen, page_num, page_loaded, displayed_page,
                   loading_detected, dom, indicator_seen, anchors_seen, eval_failure,
                   origin>>

\* sleep(1 s); continue
HttpErrorSleep ==
    /\ pc = "http_sleep"
    /\ log' = Slept(HttpErrorSleepSecs)
    /\ LoopNext
    /\ UNCHANGED <<envelope, crawl_vars, engine_vars, extract_vars, searches_vars>>
    /\ UNCHANGED <<max_page, tick, links, result, dom, extracted, indicator_seen,
                   anchors_seen, eval_failure,
                   origin>>

\* one iteration of the readiness loop, its sleep included
PollTick ==
    /\ pc = "poll"
    /\ tick < max_wait_ms \div check_interval_ms
    /\ \E answer \in { "true", "false", "error" } :
          LET res == IF answer = "error" THEN "false" ELSE answer
          IN  /\ eval_failure' = (IF answer = "error" THEN "probe" ELSE "none")
              /\ IF res = "true"
                  THEN /\ ready' = TRUE
                       /\ indicator_seen' = TRUE
                       /\ pc' = "after_poll"
                       /\ UNCHANGED tick
                  ELSE /\ tick' = tick + 1
                       /\ pc' = IF tick + 1 < max_wait_ms \div check_interval_ms
                                THEN "poll" ELSE "after_poll"
                       /\ UNCHANGED <<ready, indicator_seen>>
    /\ UNCHANGED <<envelope, crawl_vars, engine_vars, extract_vars, searches_vars>>
    /\ UNCHANGED <<max_page, attempt, links, seen, page_num, page_loaded, displayed_page,
                   loading_detected, result, dom, log, extracted, anchors_seen, origin>>

\* if !ready { if attempt == 3 { return Err } .. }
AfterPoll ==
    /\ pc = "after_poll"
    /\ IF ready
       THEN pc' = "extract" /\ UNCHANGED result
       ELSE IF attempt = FinalAttempt
            THEN Return(Err("Search results did not load after 3 attempts"))
            ELSE pc' = "not_ready_sleep" /\ UNCHANGED result
    /\ tick' = 0
    /\ UNCHANGED <<envelope, crawl_vars, engine_vars, extract_vars, searches_vars>>
    /\ UNCHANGED <<max_page, attempt, ready, links, seen, page_num,
                   page_loaded, displayed_page, loading_detected, dom, log, extracted,
                   indicator_seen, anchors_seen, eval_failure,
                   origin>>

\* the backoff sleep of the not-ready branch; the code then goes on to extract
NotReadyBackoff ==
    /\ pc = "not_ready_sleep"
    /\ log' = Slept(Pow2(attempt - 1))
    /\ pc' = "extract"
    /\ UNCHANGED <<envelope, crawl_vars, engine_vars, extract_vars, searches_vars>>
    /\ UNCHANGED <<max_page, attempt, tick, ready, links, seen, page_num,
                   page_loaded, displayed_page, loading_detected, result, dom, extracted,
                   indicator_seen, anchors_seen, eval_failure,
                   origin>>

\* `if links.is_empty()` before the fallback query
FallbackAlways(ls) == TRUE
NoPrimaryLinks(ls) == ls = <<>>

\* the primary link query, its deserialisation and the filter over a fresh `seen`
ExtractPrimary ==
    /\ pc = "extract"
    /\ \E outcome \in EvalOutcomes, d \in Doms :
          LET all_links == Delivered(outcome, PrimaryScript(d))
              f == FilterDedup(all_links, {})
          IN  /\ dom' = Delivered(outcome, d)
              /\ links' = f.kept
              /\ origin' = [i \in 1..Len(f.kept) |-> Len(log)]
              /\ seen' = f.seen
              /\ anchors_seen' = (anchors_seen \/ Delivered(outcome, d) # <<>>)
              /\ eval_failure' = (IF outcome # "value" THEN "query" ELSE "none")
              /\ IF NoPrimaryLinks(f.kept)
                 THEN pc' = "fallback" /\ UNCHANGED page_num
                 ELSE pc' = "paginate" /\ page_num' = FirstExtraPage
    /\ extracted' = TRUE
    /\ UNCHANGED <<envelope, crawl_vars, engine_vars, extract_vars, searches_vars>>
    /\ UNCHANGED <<max_page, attempt, tick, ready, page_loaded, displayed_page, loading_detected,
                   result, log, indicator_seen>>

\* if links.is_empty() { the fallback query; its result replaces links as it is }
ExtractFallback ==
    /\ pc = "fallback"
    /\ \E outcome \in EvalOutcomes, d \in Doms :
          /\ dom' = Delivered(outcome, d)
          /\ links' = Delivered(outcome, FallbackScript(d))
          /\ origin' = [i \in 1..Len(links') |-> Len(log)]
          /\ anchors_seen' = (anchors_seen \/ Delivered(outcome, d) # <<>>)
          /\ eval_failure' = (IF outcome # "value" THEN "query" ELSE "none")
    /\ pc' = "paginate"
    /\ page_num' = FirstExtraPage
    /\ UNCHANGED <<envelope, crawl_vars, engine_vars, extract_vars, searches_vars>>
    /\ UNCHANGED <<max_page, attempt, tick, ready, seen, page_loaded, displayed_page,
                   loading_detected, result, log, extracted, indicator_seen>>

\* head of `for page_num in 2..=max_page`: the current-page read and the click
Paginate ==
    /\ pc = "paginate"
    /\ dom' = <<>>
    /\ IF page_num > max_page
       THEN /\ pc' = "attempt_end"
            /\ UNCHANGED <<tick, page_num, page_loaded, displayed_page, loading_detected,
                           eval_failure>>
       ELSE \E clicked \in BOOLEAN, current_page \in { "value", "error" } :
              /\ eval_failure' = (IF current_page = "error" THEN "current" ELSE "none")
              /\ IF clicked
                  THEN /\ pc' = "wait_loading"
                       /\ tick' = 0
                       /\ page_loaded' = FALSE
                       /\ displayed_page' = 0
                       /\ loading_detected' = TRUE
                       /\ UNCHANGED page_num
                  ELSE /\ pc' = "paginate"
                       /\ page_num' = page_num + 1
                       /\ UNCHANGED <<tick, page_loaded, displayed_page, loading_detected>>
    /\ UNCHANGED <<envelope, crawl_vars, engine_vars, extract_vars, searches_vars>>
    /\ UNCHANGED <<max_page, attempt, ready, links, seen, result, log, extracted,
                   indicator_seen, anchors_seen, origin>>

\* one iteration of the wait for the loading indicator to appear
LoadingStartTick ==
    /\ pc = "wait_loading"
    /\ \E answer \in { "true", "false", "error" } :
          LET res == IF answer = "error" THEN "false" ELSE answer
              last == tick + 1 >= loading_start_wait_ms \div pagination_check_interval_ms
          IN  /\ eval_failure' = (IF answer = "error" THEN "probe" ELSE "none")
              /\ IF res = "true"
                  THEN /\ loading_detected' = TRUE
                       /\ pc' = "wait_loaded"
                       /\ tick' = 0
                  ELSE /\ pc' = IF last THEN "wait_loaded" ELSE "wait_loading"
                       /\ tick' = IF last THEN 0 ELSE tick + 1
                       /\ UNCHANGED loading_detected
    /\ UNCHANGED <<envelope, crawl_vars, engine_vars, extract_vars, searches_vars>>
    /\ UNCHANGED <<max_page, attempt, ready, links, seen, page_num, page_loaded, displayed_page,
                   result, dom, log, extracted, indicator_seen, anchors_seen, origin>>

\* what .gsc-cursor-current-page shows while the control of page n is read:
\* page n when the click has taken effect, the page before it when not
ShownPages(n) == { n - 1, n }

\* new_page can be any page label, or "??" when the read fails
PageLabels == { PageNumToString(n) : n \in 1..(MaxPageArg + 1) } \cup { "??" }

\* one iteration of the wait for the loading indicator to go and the page
\* number to match; `if !page_loaded { break }` when the loop runs out
LoadingEndTick ==
    /\ pc = "wait_loaded"
    /\ \E answer \in { "true", "false", "error" }, new_page \in PageLabels,
          shown \in ShownPages(page_num) :
          LET res == IF answer = "error" THEN "false" ELSE answer
              last == tick + 1 >= max_pagination_wait_ms \div pagination_check_interval_ms
          IN  /\ eval_failure' = (IF res = "false" /\ new_page = "??" THEN "read"
                                ELSE IF answer = "error" THEN "probe" ELSE "none")
              /\ IF loading_detected /\ res = "false" /\ new_page = PageNumToString(page_num)
                  THEN /\ page_loaded' = TRUE
                       /\ displayed_page' = shown
                       /\ pc' = "page_extract"
                       /\ tick' = 0
                  ELSE /\ pc' = IF last THEN "attempt_end" ELSE "wait_loaded"
                       /\ tick' = tick + 1
                       /\ UNCHANGED <<page_loaded, displayed_page>>
    /\ UNCHANGED <<envelope, crawl_vars, engine_vars, extract_vars, searches_vars>>
    /\ UNCHANGED <<max_page, attempt, ready, links, seen, page_num,
                   loading_detected, result, dom, log, extracted, indicator_seen,
                   anchors_seen, origin>>

\* the link query of page n, the filter against `seen`, links.extend(..)
PageExtract ==
    /\ pc = "page_extract"
    /\ \E outcome \in EvalOutcomes, d \in Doms :
          LET more_links == Delivered(outcome, PrimaryScript(d))
              f == FilterDedup(more_links, seen)
          IN  /\ dom' = Delivered(outcome, d)
              /\ links' = Extend(links, f.kept)
              /\ origin' = origin \o [i \in 1..Len(f.kept) |-> Len(log)]
              /\ seen' = f.seen
              /\ anchors_seen' = (anchors_seen \/ Delivered(outcome, d) # <<>>)
              /\ eval_failure' = (IF outcome # "value" THEN "query" ELSE "none")
    /\ pc' = "paginate"
    /\ page_num' = page_num + 1
    /\ displayed_page' = 0
    /\ UNCHANGED <<envelope, crawl_vars, engine_vars, extract_vars, searches_vars>>
    /\ UNCHANGED <<max_page, attempt, tick, ready, page_loaded, loading_detected,
                   result, log, extracted, indicator_seen>>

\* if !links.is_empty() { break }
GotLinksAtLeastTwo(ls) == Len(ls) >= 2
GotLinksInverted(ls) == ls = <<>>
GotLinks(ls) == ls # <<>>

\* end of the loop body: break on success, Err on the last attempt, else back off
AttemptEnd ==
    /\ pc = "attempt_end"
    /\ dom' = <<>>
    /\ IF GotLinks(links)
       THEN pc' = "post_loop" /\ UNCHANGED result
       ELSE IF attempt = FinalAttempt
            THEN Return(Err("No links extracted after 3 attempts"))
            ELSE pc' = "retry_sleep" /\ UNCHANGED result
    /\ tick' = 0
    /\ UNCHANGED <<envelope, crawl_vars, engine_vars, extract_vars, searches_vars>>
    /\ UNCHANGED <<max_page, attempt, ready, links, seen, page_num,
                   page_loaded, displayed_page, loading_detected, log, extracted, indicator_seen,
                   anchors_seen, eval_failure,
                   origin>>

\* the backoff sleep that ends a failed attempt
RetryBackoff ==
    /\ pc = "retry_sleep"
    /\ log' = Slept(Pow2(attempt - 1))
    /\ LoopNext
    /\ UNCHANGED <<envelope, crawl_vars, engine_vars, extract_vars, searches_vars>>
    /\ UNCHANGED <<max_page, tick, links, result, dom, extracted, indicator_seen,
                   anchors_seen, eval_failure,
                   origin>>

\* after the loop: Err when links is empty, else the serialised result
PostLoop ==
    /\ pc = "post_loop"
    /\ Return(IF links = <<>> THEN Err("No links extracted") ELSE Ok(links))
    /\ UNCHANGED <<envelope, crawl_vars, engine_vars, extract_vars, searches_vars>>
    /\ UNCHANGED <<max_page, attempt, tick, ready, links, seen, page_num,
                   page_loaded, displayed_page, loading_detected, dom, log, extracted,
                   indicator_seen, anchors_seen, eval_failure,
                   origin>>

\* the match of the search_android handler on what search_android_dev returned
search_android ==
    /\ pc = "done"
    /\ pc' = "replied"
    /\ envelope' = IF result.kind = "Ok"
                   THEN Success(result.links)
                   ELSE Success(ErrorText(result.msg))
    /\ UNCHANGED <<crawl_vars, engine_vars, extract_vars, searches_vars>>
    /\ UNCHANGED <<max_page, attempt, tick, ready, links, seen, page_num,
                   page_loaded, displayed_page, loading_detected, result, dom, log, extracted,
                   indicator_seen, anchors_seen, eval_failure,
                   origin>>

Next ==
    \/ Acquire
    \/ Goto
    \/ HttpErrorSleep
    \/ PollTick
    \/ AfterPoll
    \/ NotReadyBackoff
    \/ ExtractPrimary
    \/ ExtractFallback
    \/ Paginate
    \/ LoadingStartTick
    \/ LoadingEndTick
    \/ PageExtract
    \/ AttemptEnd
    \/ RetryBackoff
    \/ PostLoop
    \/ search_android

Spec == Init /\ [][Next]_vars

(***************************************************************************)
(* Properties of a search call.                                            *)
(***************************************************************************)
Last(q) == q[Len(q)]
Returned == pc = "done"
ReturnedOk == pc = "done" /\ result.kind = "Ok"
ReturnedErr == pc = "done" /\ result.kind = "Err"
AllPassed == \A k \in 1..Len(log) : log[k].resp = "passed"

\* C1: a search call navigates at most 3 times: no navigation is pending once
\* three have been made, whatever the engine answered.
C1_AtMostThreeNavigations ==
    /\ Len(log) <= 3
    /\ pc = "goto" => Len(log) < 3
    /\ Len(log) = 3 => pc \notin {"http_sleep", "not_ready_sleep", "retry_sleep"}

C1_Witness == Returned /\ Len(log) = 3 /\ Last(log).resp = "passed"

\* C2: when all three attempts fail by readiness timeout or empty links, the
\* backoff slept after the 1st navigation is 1 s and after the 2nd is 2 s.
C2_BackoffOneThenTwo ==
    (ReturnedErr /\ Len(log) = 3 /\ AllPassed)
        => (log[1].backoff = 1 /\ log[2].backoff = 2)

\* C3: an attempt whose navigation passed the response check ends the call
\* with Ok if and only if the links it gathered are non-empty: an Ok result
\* has links, an Err return and a retry have none.
C3_OkIffLinksNonEmpty ==
    /\ (Returned /\ log # <<>> /\ Last(log).resp = "passed")
            => (result.kind = "Ok" <=> links # <<>>)
    /\ pc = "retry_sleep" => links = <<>>
    /\ pc = "post_loop" => links # <<>>
    /\ ReturnedOk => result.links = links

C3_Witness == ReturnedOk /\ Len(log) = 3 /\ Len(result.links) = 2

\* C4: a readiness poll that runs out does not fail the attempt: on every
\* attempt, the third included, the link query still runs before the attempt
\* is over.
C4_NotReadyStillExtracts ==
    (/\ pc \in {"retry_sleep", "done"}
     /\ log # <<>>
     /\ Last(log).resp = "passed"
     /\ ~ready)
        => extracted

\* C5: when every navigation passes, the results indicator never shows and no
\* link query matches an anchor, the call returns an error after exactly 3
\* navigations.
C5_NeverPopulatedFailsAfterThree ==
    (Returned /\ log # <<>> /\ AllPassed /\ ~indicator_seen /\ ~anchors_seen)
        => (result.kind = "Err" /\ Len(log) = 3)

C5_Witness ==
    ReturnedErr /\ Len(log) = 3 /\ AllPassed /\ ~indicator_seen /\ ~anchors_seen

\* C6: a non-ok response on attempt k in {1, 2} does not end the call: the
\* attempt is dropped without a link query, the call sleeps 2^(k-1) seconds
\* and navigates again; only on attempt 3 does it return an error.
C6_HttpErrorBacksOffOnSchedule ==
    \A k \in 1..Len(log) :
        log[k].resp = "not_ok" =>
            /\ (Returned /\ k = Len(log)) => k = 3
            /\ k = Len(log) => ~extracted
            /\ k < Len(log) => log[k].backoff = Pow2(k - 1)

\* C7: every attempt starts with no links and no seen hrefs, seen never holds
\* a href that is not in links, and every link of an Ok result was gathered
\* after the last navigation.
C7_AttemptStartsEmpty ==
    /\ pc = "goto" => (links = <<>> /\ seen = {})
    /\ seen \subseteq { links[i].href : i \in 1..Len(links) }
    /\ Len(origin) = Len(links)
    /\ ReturnedOk => \A i \in 1..Len(origin) : origin[i] = Len(log)

C7_Witness ==
    ReturnedOk /\ Len(log) = 2 /\ log[1].resp = "passed" /\ anchors_seen /\ seen # {}

\* C8: the link list never holds two entries with the same href.
C8_NoDuplicateHref ==
    \A i, j \in 1..Len(links) : i # j => links[i].href # links[j].href

\* C9: every entry of an Ok result has a href that starts with the required
\* prefix and a non-empty text.
C9_ResultEntriesWellFormed ==
    ReturnedOk =>
        \A i \in 1..Len(result.links) :
            /\ StartsWith(result.links[i].href, RequiredPrefix)
            /\ result.links[i].text # <<>>

\* an Ok result of one fallback link and one link of a later page
C9_Witness ==
    /\ ReturnedOk
    /\ page_loaded
    /\ Len(result.links) = 2
    /\ Cardinality(seen) = 1
    /\ result.links[1].href # result.links[2].href

\* First-seen order, stated on positions: entry i of a batch is kept when it is
\* well formed, its href is not in s, and no well-formed entry before it has
\* the same href.
WellFormed(l) == StartsWith(l.href, RequiredPrefix) /\ l.text # <<>>

FirstSeenAt(b, s) ==
    { i \in 1..Len(b) :
        /\ WellFormed(b[i])
        /\ b[i].href \notin s
        /\ \A j \in 1..(i - 1) : ~(WellFormed(b[j]) /\ b[j].href = b[i].href) }

RECURSIVE Pick(_, _, _)
Pick(b, I, i) ==
    IF i > Len(b) THEN <<>>
    ELSE (IF i \in I THEN <<b[i]>> ELSE <<>>) \o Pick(b, I, i + 1)

FirstSeen(b, s) == Pick(b, FirstSeenAt(b, s), 1)

IsPrefix(p, q) == Len(p) <= Len(q) /\ SubSeq(q, 1, Len(p)) = p

\* C10: links are in first-seen order: the page-1 query leaves the accepted
\* anchors in page order, each later page appends its newly accepted anchors
\* in page order, and pagination never reorders or removes an entry.
C10_FirstSeenOrder ==
    [][ /\ pc \in {"extract", "fallback"} => links' = FirstSeen(PrimaryScript(dom'), {})
        /\ pc = "page_extract" => links' = links \o FirstSeen(PrimaryScript(dom'), seen)
        /\ pc \in {"paginate", "wait_loading", "wait_loaded", "page_extract"}
               => IsPrefix(links, links')
      ]_vars

\* page 2 has added a second link behind the link of page 1
C10_Witness ==
    /\ pc = "paginate"
    /\ page_num = 3
    /\ page_loaded
    /\ Len(dom) = 2
    /\ Len(links) = 2
    /\ links[1].href # links[2].href
    /\ links[2].href = dom[2].href

\* the accepted entries of two batches in order, one entry per href
DedupUnion(b1, b2) == FirstSeen(b1 \o b2, {})

\* C11: with max_page = 2, page 1 ready and page 2 clicked, loaded and
\* verified, the links are exactly the accepted entries of page 1 followed by
\* the accepted entries of page 2, one entry per href and none missing.
C11_UnionOfBothPages ==
    [][ (max_page = 2 /\ ready) =>
          /\ pc \in {"extract", "fallback"}
                => links' = DedupUnion(PrimaryScript(dom'), <<>>)
          /\ pc = "page_extract"
                => links' = DedupUnion(links, PrimaryScript(dom'))
      ]_vars

\* C12: a failed click on the control of page n ends pagination for the call:
\* the page loop is left with no later page to click, and links is unchanged.
C12_FailedClickStopsPagination ==
    [][ (pc = "paginate" /\ page_num <= max_page /\ pc' = "paginate") =>
          /\ page_num' > max_page
          /\ links' = links
      ]_vars

\* C13: a page that is not verified within the loading budget ends
\* pagination.  The budget is 40 ticks and a mismatch does not restart it;
\* when it runs out the page loop is left, links is what it was before the
\* page, and the attempt ends by the emptiness of links alone.
C13_UnverifiedPageStopsPagination ==
    [][ /\ pc = "wait_loaded" => tick < 40
        /\ (pc = "wait_loaded" /\ pc' # "page_extract") =>
              /\ tick' = tick + 1
              /\ links' = links
              /\ pc' = IF tick' = 40 THEN "attempt_end" ELSE "wait_loaded"
        /\ pc = "attempt_end" =>
              /\ links' = links
              /\ pc' = IF links # <<>> THEN "post_loop"
                       ELSE IF attempt = 3 THEN "done" ELSE "retry_sleep"
      ]_vars

\* page 2 of 3 ran out of ticks with a link of page 1 in hand
C13_Witness ==
    /\ pc = "attempt_end"
    /\ tick = 40
    /\ max_page = 3
    /\ page_num = 2
    /\ ~page_loaded
    /\ links # <<>>

(***************************************************************************)
(* Documents.  An HTML string is the sequence of its top-level nodes; a    *)
(* node is a text or an element with a tag, a class, at most one other     *)
(* attribute and children.  A class and an attribute value are sequences   *)
(* of pieces, so that [class*='..'] and [id*='..'] are computed.           *)
(***************************************************************************)
MaxKids == 2       \* most children of one element

Text(t) == [node |-> "text", text |-> t]
Element(t, c, a, k) == [node |-> "element", tag |-> t, class |-> c, attr |-> a, kids |-> k]

\* the elements a document is built from, innermost first
Leaves ==
    { Element("article", <<"markdown">>, <<>>, <<Text("body")>>),
      Element("nav", <<>>, <<>>, <<Text("menu")>>),
      Element("div", <<>>, <<"role", <<"main">>>>, <<Text("story")>>),
      Element("header", <<"content">>, <<>>, <<Text("title")>>),
      Element("p", <<>>, <<>>, <<Text("para")>>),
      Element("main", <<>>, <<>>, <<Text("inner")>>),
      Element("aside", <<>>, <<"role", <<"main">>>>, <<Text("related")>>) }

Containers ==
    { Element(t, <<>>, <<>>, k) :
        t \in {"main", "div"}, k \in SeqsUpTo(Leaves \cup {Text("text")}, MaxKids) }

\* a page with an empty body, or with one element in it
Htmls == { <<>> } \cup { <<n>> : n \in Leaves \cup Containers }

\* html2md::parse_html: the text of the document in document order, a blank
\* line after each paragraph, and no tag
RECURSIVE Html2Md(_)
Html2Md(h) ==
    IF h = <<>> THEN <<>>
    ELSE LET n == Head(h)
             first == IF n.node = "text" THEN <<n.text>>
                      ELSE Html2Md(n.kids) \o (IF n.tag = "p" THEN <<"\n\n">> ELSE <<>>)
         IN  first \o Html2Md(Tail(h))

(***************************************************************************)
(* Selectors.  A selector is a list of alternatives (the comma), each a    *)
(* chain of compound selectors joined by the descendant combinator.  A     *)
(* compound constrains the tag, the class and one attribute; "" and <<>>   *)
(* constrain nothing.                                                      *)
(***************************************************************************)
AnyElement == [tag |-> "", class |-> <<>>, attr |-> <<>>]

Tag(t) == << << [AnyElement EXCEPT !.tag = t] >> >>
Class(c) == << << [AnyElement EXCEPT !.class = <<"=", c>>] >> >>
ClassHas(c) == << << [AnyElement EXCEPT !.class = <<"*", c>>] >> >>
TagClass(t, c) == << << [AnyElement EXCEPT !.tag = t, !.class = <<"=", c>>] >> >>
TagClassHas(t, c) == << << [AnyElement EXCEPT !.tag = t, !.class = <<"*", c>>] >> >>
Attr(n, v) == << << [AnyElement EXCEPT !.attr = <<n, "=", v>>] >> >>
AttrHas(n, v) == << << [AnyElement EXCEPT !.attr = <<n, "*", v>>] >> >>
TagAttr(t, n, v) == << << [AnyElement EXCEPT !.tag = t, !.attr = <<n, "=", v>>] >> >>
Id(v) == Attr("id", v)
Descendant(a, b) == << a[1] \o b[1] >>
Either(a, b) == a \o b

\* a piece of a value equals v: the substring match of *=
HasPiece(value, v) == \E i \in 1..Len(value) : value[i] = v

MatchesCompound(e, c) ==
    /\ c.tag \in {"", e.tag}
    /\ \/ c.class = <<>>
       \/ c.class[1] = "=" /\ e.class = <<c.class[2]>>
       \/ c.class[1] = "*" /\ HasPiece(e.class, c.class[2])
    /\ \/ c.attr = <<>>
       \/ /\ e.attr # <<>>
          /\ e.attr[1] = c.attr[1]
          /\ \/ c.attr[2] = "=" /\ e.attr[2] = <<c.attr[3]>>
             \/ c.attr[2] = "*" /\ HasPiece(e.attr[2], c.attr[3])

\* the compounds cs match, in order, some of the ancestors anc (outermost first)
RECURSIVE MatchesAncestors(_, _)
MatchesAncestors(anc, cs) ==
    IF cs = <<>> THEN TRUE
    ELSE IF anc = <<>> THEN FALSE
    ELSE IF MatchesCompound(anc[Len(anc)], cs[Len(cs)])
         THEN MatchesAncestors(SubSeq(anc, 1, Len(anc) - 1), SubSeq(cs, 1, Len(cs) - 1))
         ELSE MatchesAncestors(SubSeq(anc, 1, Len(anc) - 1), cs)

\* Selector::matches
Matches(e, anc, sel) ==
    \E i \in 1..Len(sel) :
        LET chain == sel[i]
        IN  /\ MatchesCompound(e, chain[Len(chain)])
            /\ MatchesAncestors(anc, SubSeq(chain, 1, Len(chain) - 1))

\* the elements of a parsed document in document order, each with its ancestors
RECURSIVE Walk(_, _)
Walk(forest, anc) ==
    IF forest = <<>> THEN <<>>
    ELSE LET n == Head(forest)
             here == IF n.node = "element"
                     THEN <<[el |-> n, anc |-> anc]>> \o Walk(n.kids, Append(anc, n))
                     ELSE <<>>
         IN  here \o Walk(Tail(forest), anc)

\* Html::parse_document(html) and document.select(&selector): the html, head
\* and body elements the parser adds match no selector of the tables
Select(h, sel) ==
    LET all == Walk(h, <<>>)
        hits == SelectSeq(all, LAMBDA w : Matches(w.el, w.anc, sel))
    IN  [i \in 1..Len(hits) |-> hits[i].el]

(***************************************************************************)
(* extract_content (src/src/extractor/mod.rs).                             *)
(***************************************************************************)
Framework(n, mc, tcs, ex) ==
    [name |-> n, main_container |-> mc, text_content_selector |-> tcs, exclusions |-> ex]

FRAMEWORKS ==
    << Framework("Docusaurus v2/v3", Tag("main"), TagClass("article", "markdown"),
           << Class("pagination-nav"), Class("theme-doc-toc-desktop"),
              Class("theme-doc-sidebar-container"), Class("hash-link") >>),
       Framework("Sphinx (RTD)", Class("wy-nav-content"), Attr("itemprop", "articleBody"),
           << Class("wy-nav-side"), Class("rst-footer-buttons"), TagClass("a", "headerlink") >>),
       Framework("Sphinx (Alabaster)", TagClass("div", "body"), TagClass("div", "body"),
           << Class("sphinxsidebar"), Class("link-header") >>),
       Framework("MkDocs (Material)", Class("md-main"), Class("md-content__inner"),
           << Class("md-sidebar"), Class("md-footer"), Class("md-header"),
              Class("md-clipboard") >>),
       Framework("GitBook (Legacy)", Class("page-inner"),
           Descendant(Class("page-inner"), Tag("section")),
           << Class("book-summary"), Class("book-header") >>),
       Framework("GitBook (Cloud)", Tag("main"), Tag("main"),
           << Tag("nav"), TagClassHas("div", "sidebar") >>),
       Framework("Hugo (General)", Tag("main"), Either(Class("content"), Class("post-content")),
           << Tag("header"), Tag("footer"), Class("menu") >>),
       Framework("Nextra", Tag("main"), Tag("main"),
           << Tag("nav"), Tag("footer"), Class("nextra-sidebar-container") >>),
       Framework("NY Times", Id("site-content"), TagAttr("section", "data-testid", "story-content"),
           << Id("site-content-skip"), Attr("data-testid", "related-links"),
              Attr("data-testid", "newsletter-signup") >>),
       Framework("BBC News", Attr("role", "main"), Attr("data-component", "text-block"),
           << Attr("role", "complementary"), Class("bbc-1151pbn") >>),
       Framework("CNN", Class("article__content"), Class("Paragraph__component"),
           << Class("el-spoke-story"), Class("zn-body__read-more"), Class("ad-container") >>),
       Framework("Reuters", Tag("main"), ClassHas("article-body__content"),
           << Attr("data-testid", "sidebar"), Tag("nav"), Class("read-next-container") >>) >>

EXCLUSION_SELECTORS ==
    << Tag("header"), Tag("footer"), Tag("nav"), Tag("aside"), Attr("role", "navigation"),
       Attr("role", "banner"), Attr("role", "contentinfo"), Attr("role", "alert"),
       Class("ad"), Class("advertisement"), ClassHas("google_ads"), AttrHas("id", "div-gpt-ad"),
       Class("share-buttons"), Class("social-media"), Class("twitter-tweet"),
       TagClassHas("div", "share"),
       Class("modal"), Class("popup"), Class("overlay"), ClassHas("cookie"), ClassHas("consent"),
       Class("author-bio"), Class("timestamp"), Class("meta-data"),
       Class("no-print"), Class("print-only") >>

\* Option<String>
None == <<>>
Some(x) == <<x>>

\* Html::parse_fragment(..), then over fragment.root_element().children():
\* an element is kept unless some exclusion selector matches it, a text is kept
Cleaned(fragment, exclusions) ==
    SelectSeq(fragment,
        LAMBDA n : \/ n.node = "text"
                   \/ ~\E i \in 1..Len(exclusions) : Matches(n, <<>>, exclusions[i]))

\* the extraction without `if document.select(&main_container_selector).next().is_some()`
ContentWithoutContainer(document, framework) ==
    LET content_html == Select(document, framework.text_content_selector)
    IN  IF content_html # <<>>
        THEN <<Cleaned(content_html, framework.exclusions \o EXCLUSION_SELECTORS)>>
        ELSE <<>>

apply_framework_extraction(document, framework) ==
    IF Select(document, framework.main_container) # <<>>
    THEN LET content_html == Select(document, framework.text_content_selector)
         IN  IF content_html # <<>>
             THEN Some(Cleaned(content_html, framework.exclusions \o EXCLUSION_SELECTORS))
             ELSE None
    ELSE None

semantic_selectors == << Attr("itemprop", "articleBody"), Attr("role", "main") >>

RECURSIVE SemanticFrom(_, _)
SemanticFrom(document, i) ==
    IF i > Len(semantic_selectors) THEN None
    ELSE LET found == Select(document, semantic_selectors[i])
         IN  IF found # <<>>
             THEN Some(Cleaned(<<found[1]>>, EXCLUSION_SELECTORS))
             ELSE SemanticFrom(document, i + 1)

apply_semantic_extraction(document) == SemanticFrom(document, 1)

\* Readability::new(html, None), parser.parse(), article.content: the library
\* either gives no content or gives some part of the document
ReadabilityOutcomes(h) ==
    {None, Some(h)} \cup { Some(<<Walk(h, <<>>)[i].el>>) : i \in 1..Len(Walk(h, <<>>)) }

\* for framework in FRAMEWORKS.iter(): the first Some(content) is returned
RECURSIVE FrameworkTier(_, _)
FrameworkTier(document, i) ==
    IF i > Len(FRAMEWORKS) THEN None
    ELSE LET content == apply_framework_extraction(document, FRAMEWORKS[i])
         IN  IF content # None THEN content ELSE FrameworkTier(document, i + 1)

\* rd is what the readability library answers for this html
extract_content(h, rd) ==
    LET tier1 == FrameworkTier(h, 1)
        tier2 == apply_semantic_extraction(h)
    IN  IF tier1 # None THEN tier1[1]
        ELSE IF tier2 # None THEN tier2[1]
        ELSE IF rd # None THEN rd[1]
        ELSE h

\* the position in FRAMEWORKS of the framework whose extraction is returned
RECURSIVE FrameworkReturned(_, _)
FrameworkReturned(document, i) ==
    IF i > Len(FRAMEWORKS) THEN 0
    ELSE IF apply_framework_extraction(document, FRAMEWORKS[i]) # None THEN i
    ELSE FrameworkReturned(document, i + 1)

(***************************************************************************)
(* One crawl call: the crawl_url handler and BrowserManager::scrape_page.  *)
(***************************************************************************)
ready_indicators ==
    << "document.querySelector('app-post')",
       "document.querySelector('[ng-version]')",
       "document.querySelector('main, article, .post-content, .article-content')" >>

crawl_max_wait_ms == 10000
crawl_check_interval_ms == 250
\* the range of `for attempt in 0..(max_wait_ms / check_interval_ms)`
PollTicksHalved == crawl_max_wait_ms \div (2 * crawl_check_interval_ms)
PollTicksInclusive == crawl_max_wait_ms \div crawl_check_interval_ms + 1
PollTicks == crawl_max_wait_ms \div crawl_check_interval_ms

\* the variables of the search call, at rest
SearchAtRest ==
    /\ pc = "idle"
    /\ max_page = 0
    /\ attempt = 0
    /\ tick = 0
    /\ ready = FALSE
    /\ links = <<>>
    /\ seen = {}
    /\ page_num = 0
    /\ page_loaded = FALSE
    /\ displayed_page = 0
    /\ loading_detected = FALSE
    /\ result = Pending
    /\ dom = <<>>
    /\ log = <<>>
    /\ extracted = FALSE
    /\ indicator_seen = FALSE
    /\ anchors_seen = FALSE
    /\ eval_failure = "none"
    /\ origin = <<>>

CrawlInit ==
    /\ envelope = NoEnvelope
    /\ EngineAtRest
    /\ SearchAtRest
    /\ ExtractAtRest
    /\ SearchesAtRest
    /\ cpc = "acquire"
    /\ poll_attempt = 0
    /\ indicator = 0
    /\ page_ready = FALSE
    /\ html = NoHtml
    /\ cresult = CrawlPending
    /\ navigations = <<>>
    /\ polled = FALSE
    /\ sleeps = [interval |-> 0, settle |-> 0]

\* `return Err(..)`, `?`, the final Ok(markdown), and a panic
CrawlReturn(r) ==
    /\ cpc' = "done"
    /\ cresult' = r

\* get_playwright().await?, webkit().launch().await?, new_page().await?
CrawlAcquire ==
    /\ cpc = "acquire"
    /\ \E ok \in BOOLEAN :
          IF ok
          THEN cpc' = "goto" /\ UNCHANGED cresult
          ELSE CrawlReturn(CrawlErr("engine"))
    /\ UNCHANGED <<poll_attempt, indicator, page_ready, html, navigations,
                   polled, sleeps>>
    /\ UNCHANGED <<search_vars, envelope, engine_vars, extract_vars, searches_vars>>

\* response.ok()
ResponseAlwaysOk(r) == TRUE
ResponseOk(r) == r = "ok"

\* page.goto(..).await?.expect("URL should return a response") and the
\* response check
CrawlGoto ==
    /\ cpc = "goto"
    /\ \E r \in { "error", "none", "ok", "not_ok" } :
          /\ navigations' = Append(navigations, r)
          /\ CASE r = "error" ->
                     /\ CrawlReturn(CrawlErr("goto"))
                     /\ UNCHANGED <<poll_attempt, indicator>>
               [] r = "none" ->
                     /\ CrawlReturn(CrawlPanic("URL should return a response"))
                     /\ UNCHANGED <<poll_attempt, indicator>>
               [] r \notin {"error", "none"} /\ ~ResponseOk(r) ->
                     /\ CrawlReturn(CrawlErr("HTTP error"))
                     /\ UNCHANGED <<poll_attempt, indicator>>
               [] OTHER ->
                     /\ cpc' = "probe"
                     /\ poll_attempt' = 0
                     /\ indicator' = 1
                     /\ UNCHANGED cresult
    /\ UNCHANGED <<page_ready, html, polled, sleeps>>
    /\ UNCHANGED <<search_vars, envelope, engine_vars, extract_vars, searches_vars>>

\* a probe that found nothing ends the tick, whatever its position
NextProbeEndsTick ==
    /\ sleeps' = [sleeps EXCEPT !.interval = @ + 1]
    /\ poll_attempt' = poll_attempt + 1
    /\ indicator' = 1
    /\ cpc' = IF poll_attempt + 1 < PollTicks THEN "probe" ELSE "serialize"

\* the end of one pass over `for indicator in &ready_indicators` that found
\* nothing: the next indicator, or the interval sleep and the next tick, or
\* the end of the poll
NextProbe ==
    IF indicator < Len(ready_indicators)
    THEN /\ indicator' = indicator + 1
         /\ cpc' = "probe"
         /\ UNCHANGED <<poll_attempt, sleeps>>
    ELSE /\ sleeps' = [sleeps EXCEPT !.interval = @ + 1]
         /\ poll_attempt' = poll_attempt + 1
         /\ indicator' = 1
         /\ cpc' = IF poll_attempt + 1 < PollTicks THEN "probe" ELSE "serialize"

\* evaluate_value("!!(indicator)").await.unwrap_or("false")
CrawlProbe ==
    /\ cpc = "probe"
    /\ polled' = TRUE
    /\ \E answer \in { "true", "false", "error" } :
          LET res == IF answer = "error" THEN "false" ELSE answer
          IN  IF res = "true"
              THEN /\ cpc' = "content_check"
                   /\ UNCHANGED <<poll_attempt, indicator, sleeps>>
              ELSE NextProbe
    /\ UNCHANGED <<page_ready, html, cresult, navigations>>
    /\ UNCHANGED <<search_vars, envelope, engine_vars, extract_vars, searches_vars>>

\* `if ready`: the final stabilization delay of 300 ms, then break, which
\* skips the interval sleep at the end of the loop body
StabilizationAfterInterval(s) == [s EXCEPT !.settle = @ + 1, !.interval = @ + 1]
StabilizationDelay(s) == [s EXCEPT !.settle = @ + 1]

\* evaluate_value("(indicator).textContent.trim().length > 100"); when true:
\* ready, page_ready, the 300 ms sleep, break
CrawlContentCheck ==
    /\ cpc = "content_check"
    /\ \E answer \in { "true", "false", "error" } :
          LET res == IF answer = "error" THEN "false" ELSE answer
          IN  IF res = "true"
              THEN /\ page_ready' = TRUE
                   /\ sleeps' = StabilizationDelay(sleeps)
                   /\ cpc' = "serialize"
                   /\ UNCHANGED <<poll_attempt, indicator>>
              ELSE NextProbe /\ UNCHANGED page_ready
    /\ UNCHANGED <<html, cresult, navigations, polled>>
    /\ UNCHANGED <<search_vars, envelope, engine_vars, extract_vars, searches_vars>>

\* evaluate_value(load_js_script()).await?, html2md::parse_html(&html), Ok(markdown)
CrawlSerialize ==
    /\ cpc = "serialize"
    /\ \E outcome \in EvalOutcomes, h \in Htmls :
          IF outcome = "value"
          THEN /\ html' = h
               /\ CrawlReturn(CrawlOk(Html2Md(h)))
          ELSE /\ CrawlReturn(CrawlErr("evaluate"))
               /\ UNCHANGED html
    /\ UNCHANGED <<poll_attempt, indicator, page_ready, navigations, polled, sleeps>>
    /\ UNCHANGED <<search_vars, envelope, engine_vars, extract_vars, searches_vars>>

\* the match of the crawl_url handler on what scrape_page returned; a panic
\* has unwound the handler with it
crawl_url ==
    /\ cpc = "done"
    /\ cresult.kind # "Panic"
    /\ cpc' = "replied"
    /\ envelope' = IF cresult.kind = "Ok"
                   THEN Success(cresult.markdown)
                   ELSE Success(ErrorText(cresult.msg))
    /\ UNCHANGED <<poll_attempt, indicator, page_ready, html, cresult,
                   navigations, polled, sleeps>>
    /\ UNCHANGED <<search_vars, engine_vars, extract_vars, searches_vars>>

CrawlNext ==
    \/ CrawlAcquire
    \/ CrawlGoto
    \/ CrawlProbe
    \/ CrawlContentCheck
    \/ CrawlSerialize
    \/ crawl_url

SpecCrawl == CrawlInit /\ [][CrawlNext]_vars

(***************************************************************************)
(* One call of extract_content.                                            *)
(***************************************************************************)
\* a call extract_content(html) on any document, the library answering
\* anything it can
ExtractInit ==
    /\ envelope = NoEnvelope
    /\ SearchAtRest
    /\ CrawlAtRest
    /\ EngineAtRest
    /\ SearchesAtRest
    /\ ext_pc = "call"
    /\ ext_html \in Htmls
    /\ ext_article \in ReadabilityOutcomes(ext_html)
    /\ ext_content = NoHtml
    /\ ext_tier = "none"
    /\ ext_framework = 0

\* the body of extract_content, up to the return statement it reaches
ExtractContent ==
    /\ ext_pc = "call"
    /\ ext_pc' = "returned"
    /\ ext_content' = extract_content(ext_html, ext_article)
    /\ ext_framework' = FrameworkReturned(ext_html, 1)
    /\ ext_tier' = IF FrameworkReturned(ext_html, 1) # 0 THEN "framework"
                   ELSE IF apply_semantic_extraction(ext_html) # None THEN "semantic"
                   ELSE IF ext_article # None THEN "readability"
                   ELSE "input"
    /\ UNCHANGED <<ext_html, ext_article>>
    /\ UNCHANGED <<search_vars, envelope, crawl_vars, engine_vars, searches_vars>>

ExtractNext == ExtractContent

SpecExtract == ExtractInit /\ [][ExtractNext]_vars

(***************************************************************************)
(* Properties of a crawl call.                                             *)
(***************************************************************************)
NoSleep == [interval |-> 0, settle |-> 0]

\* C14: a crawl call navigates once and never backs off: no sleep precedes
\* a navigation and none follows the first one.  A response that is not ok
\* ends the call with an error at once: no readiness script, no sleep, no
\* serialisation.
C14_OneNavigationNoRetry ==
    /\ Len(navigations) <= 1
    /\ cpc \in {"probe", "content_check", "serialize"} => Len(navigations) = 1
    /\ Len(navigations) = 0 => sleeps = NoSleep
    /\ Len(navigations) = 1 => cpc # "goto"
    /\ (navigations # <<>> /\ navigations[1] = "not_ok") =>
          /\ cpc \in {"done", "replied"}
          /\ cresult.kind = "Err"
          /\ ~polled
          /\ sleeps = NoSleep
          /\ html = NoHtml

C14_Witness ==
    /\ cpc = "done"
    /\ navigations = <<"not_ok">>
    /\ cresult = CrawlErr("HTTP error")

\* C15: a readiness poll that runs out (40 ticks, no probe satisfied) does
\* not fail the crawl: the call goes on to the serialisation script, and when
\* that script returns a document the call returns Ok with its markdown.
C15_PollTimeoutNotFatal ==
    [][ /\ (cpc \in {"probe", "content_check"} /\ cpc' = "serialize" /\ ~page_ready') =>
              /\ sleeps'.interval = 40
              /\ cresult' = CrawlPending
        /\ (cpc = "serialize" /\ ~page_ready) =>
              /\ sleeps.interval = 40
              /\ cpc' = "done"
              /\ html' # NoHtml => (cresult'.kind = "Ok" /\ cresult'.markdown = Html2Md(html'))
              /\ html' = NoHtml => cresult' = CrawlErr("evaluate")
      ]_vars

C15_Witness ==
    /\ cpc = "replied"
    /\ ~page_ready
    /\ sleeps = [interval |-> 40, settle |-> 0]
    /\ cresult.kind = "Ok"
    /\ Len(cresult.markdown) = 2
    /\ envelope.text = cresult.markdown

\* C16: the markdown of a successful crawl is the conversion of
\* extract_content(html), whatever the readability library answers, and not
\* of the serialised html as it is.
C16_MarkdownOfExtractedContent ==
    (cpc = "done" /\ cresult.kind = "Ok") =>
        \E rd \in ReadabilityOutcomes(html) :
            cresult.markdown = Html2Md(extract_content(html, rd))

\* C17: no path of a crawl call panics: whatever the engine answers, the
\* call returns Ok or Err.
C17_CrawlNeverPanics ==
    cpc = "done" => cresult.kind \in {"Ok", "Err"}

(***************************************************************************)
(* The shared engine handle: BrowserManager::new and get_playwright, and   *)
(* the calls of one server running concurrently.  What a call does with    *)
(* its page is reduced to the sequence of its phases.                      *)
(***************************************************************************)
NumCalls == 3      \* concurrent calls on the server

Calls == 1..NumCalls
Server == NoCall   \* the launch made by BrowserManager::new

\* odd calls are crawl_url calls, even calls are search_android calls
CallKind(c) == IF c % 2 = 1 THEN "crawl" ELSE "search"

\* what follows get_playwright in scrape_page and in search_android_dev
PagePhases(kind) ==
    IF kind = "crawl"
    THEN << "browser", "page", "navigate", "poll", "serialize" >>
    ELSE << "browser", "page", "navigate", "poll", "extract", "paginate", "backoff" >>

AllPagePhases == { "browser", "page", "navigate", "poll", "serialize",
                   "extract", "paginate", "backoff" }

\* BrowserManager::new: Playwright::launch().await.ok().map(Arc::new)
EngineInit ==
    /\ envelope = NoEnvelope
    /\ SearchAtRest
    /\ CrawlAtRest
    /\ ExtractAtRest
    /\ SearchesAtRest
    /\ launches = <<Server>>
    /\ instance \in { None, Some(1) }
    /\ lock_owner = NoCall
    /\ call_pc = [c \in Calls |-> "idle"]
    /\ call_pw = [c \in Calls |-> 0]
    /\ waited = {}

\* self.instance.lock().await resolves when no guard is alive
LockAlwaysFree == TRUE
LockFree == lock_owner = NoCall

\* the guard `pw_lock` is dropped when get_playwright returns
GuardKept(c) == c
GuardDropped(c) == NoCall

\* a request reaches its handler, which calls get_playwright
Arrive(c) ==
    /\ call_pc[c] = "idle"
    /\ call_pc' = [call_pc EXCEPT ![c] = "lock"]
    /\ waited' = IF \E d \in Calls : call_pc[d] = "launching"
                 THEN waited \cup {c} ELSE waited
    /\ UNCHANGED <<instance, lock_owner, call_pw, launches>>
    /\ UNCHANGED <<search_vars, envelope, crawl_vars, extract_vars, searches_vars>>

\* let mut pw_lock = self.instance.lock().await
Lock(c) ==
    /\ call_pc[c] = "lock"
    /\ LockFree
    /\ lock_owner' = c
    /\ call_pc' = [call_pc EXCEPT ![c] = "check"]
    /\ UNCHANGED <<instance, call_pw, launches, waited>>
    /\ UNCHANGED <<search_vars, envelope, crawl_vars, extract_vars, searches_vars>>

\* if let Some(ref pw) = *pw_lock
HandleNeverHolds(handle) == FALSE
HandleHolds(handle) == handle # None

\* if let Some(ref pw) = *pw_lock { Ok(pw.clone()) } else { Playwright::launch() .. }
Check(c) ==
    /\ call_pc[c] = "check"
    /\ IF HandleHolds(instance)
       THEN /\ call_pw' = [call_pw EXCEPT ![c] = instance[1]]
            /\ lock_owner' = GuardDropped(c)
            /\ call_pc' = [call_pc EXCEPT ![c] = PagePhases(CallKind(c))[1]]
            /\ UNCHANGED <<launches, waited>>
       ELSE /\ launches' = Append(launches, c)
            /\ call_pc' = [call_pc EXCEPT ![c] = "launching"]
            /\ waited' = waited \cup { d \in Calls : call_pc[d] = "lock" }
            /\ UNCHANGED <<call_pw, lock_owner>>
    /\ UNCHANGED instance
    /\ UNCHANGED <<search_vars, envelope, crawl_vars, extract_vars, searches_vars>>

\* the `?` on Playwright::launch().await and on self.get_playwright().await:
\* the error is returned from get_playwright and from the calling operation
LaunchRetried(c) == "check"
LaunchFailed(c) == "done"

\* the `?` returns before `*pw_lock = Some(..)`: the handle is left as it was
FailureCached(handle) == Some(NoCall)
AfterFailedLaunch(handle) == handle

\* Playwright::launch().await?, *pw_lock = Some(pw.clone()), Ok(pw)
Launched(c) ==
    /\ call_pc[c] = "launching"
    /\ \E ok \in BOOLEAN :
          IF ok
          THEN /\ instance' = Some(Len(launches))
               /\ call_pw' = [call_pw EXCEPT ![c] = Len(launches)]
               /\ call_pc' = [call_pc EXCEPT ![c] = PagePhases(CallKind(c))[1]]
          ELSE /\ call_pc' = [call_pc EXCEPT ![c] = LaunchFailed(c)]
               /\ instance' = AfterFailedLaunch(instance)
               /\ UNCHANGED call_pw
    /\ lock_owner' = GuardDropped(c)
    /\ UNCHANGED <<launches, waited>>
    /\ UNCHANGED <<search_vars, envelope, crawl_vars, extract_vars, searches_vars>>

\* one operation on the call's own browser and page: it fails and the call
\* returns, or the call goes on to its next phase
PageStep(c) ==
    /\ call_pc[c] \in AllPagePhases
    /\ LET phases == PagePhases(CallKind(c))
           at == CHOOSE i \in 1..Len(phases) : phases[i] = call_pc[c]
       IN  \E ok \in BOOLEAN :
              call_pc' = [call_pc EXCEPT ![c] =
                             IF ok /\ at < Len(phases) THEN phases[at + 1] ELSE "done"]
    /\ UNCHANGED <<instance, lock_owner, call_pw, launches, waited>>
    /\ UNCHANGED <<search_vars, envelope, crawl_vars, extract_vars, searches_vars>>

EngineNext ==
    \E c \in Calls :
        \/ Arrive(c)
        \/ Lock(c)
        \/ Check(c)
        \/ Launched(c)
        \/ PageStep(c)

SpecEngine == EngineInit /\ [][EngineNext]_vars

(***************************************************************************)
(* One tool call on the server, of either tool.                            *)
(***************************************************************************)
ToolsInit == Init \/ CrawlInit

ToolsNext == Next \/ CrawlNext

SpecTools == ToolsInit /\ [][ToolsNext]_vars

\* every engine operation eventually returns and the runtime keeps polling
\* the call's future: a step that is possible is eventually taken
SpecToolsFair == ToolsInit /\ [][ToolsNext]_vars /\ WF_vars(ToolsNext)

\* C18: both handlers answer with a success envelope holding a text: the
\* result when the operation returned Ok, "Error: " and the error's text
\* when it returned Err.  No envelope is a transport error, and an envelope
\* once returned does not change.
C18_AlwaysSuccessEnvelope ==
    [][ /\ pc = "done" =>
              /\ pc' = "replied"
              /\ envelope' = [kind |-> "success",
                              text |-> IF result.kind = "Ok" THEN result.links
                                       ELSE <<"Error: ", result.msg>>]
        /\ (cpc = "done" /\ cresult.kind \in {"Ok", "Err"}) =>
              /\ cpc' = "replied"
              /\ envelope' = [kind |-> "success",
                              text |-> IF cresult.kind = "Ok" THEN cresult.markdown
                                       ELSE <<"Error: ", cresult.msg>>]
        /\ envelope'.kind \in {"none", "success"}
        /\ envelope.kind = "success" => envelope' = envelope
      ]_vars

\* a crawl whose navigation got a response that is not ok, reported as text
C18_Witness ==
    /\ cpc = "replied"
    /\ navigations = <<"not_ok">>
    /\ envelope = [kind |-> "success", text |-> <<"Error: ", "HTTP error">>]

(***************************************************************************)
(* Properties of the engine handle.                                        *)
(***************************************************************************)
Launching == { c \in Calls : call_pc[c] = "launching" }

\* C19, as stated: a call that has waited for the lock while a construction
\* was in flight reuses that construction's result and never constructs.
C19_WaitersNeverConstruct ==
    \A c \in waited : call_pc[c] # "launching"

\* C19, amended: at most one engine construction is in progress at any time;
\* the constructing call holds the lock, so a call that arrives meanwhile
\* waits; once a construction has succeeded no call constructs again and
\* every call gets the engine the handle holds.  A call that has waited
\* constructs only while the handle is still empty, that is after the
\* constructions it waited for have failed.
C19_SingleFlightConstruction ==
    /\ [](/\ Cardinality(Launching) <= 1
          /\ \A c \in Launching : lock_owner = c /\ instance = <<>>
          /\ \A c \in Calls : call_pw[c] # 0 => instance = <<call_pw[c]>>)
    /\ [][ /\ instance # <<>> => (launches' = launches /\ instance' = instance)
           /\ \A c \in Calls :
                 (call_pc[c] = "lock" /\ Launching # {}) => call_pc'[c] = "lock"
         ]_vars

\* a call that waited through a construction holds the engine it built,
\* while another that waited through a failed one constructs in its turn
C19_Witness ==
    \E c1, c2, c3 \in Calls :
        /\ c2 \in waited
        /\ c3 \in waited
        /\ call_pc[c1] = "done"
        /\ call_pc[c2] \in AllPagePhases
        /\ call_pw[c2] = 3
        /\ launches = <<Server, c1, c2>>
        /\ call_pw[c3] = 3

\* C20: the lock is held only between lock() and the return of
\* get_playwright: its owner is checking the handle or constructing, never
\* in a page operation.  With the engine in place, a call waiting for the
\* lock waits only for another call's check of the handle.
C20_LockOnlyAroundCheckAndConstruct ==
    /\ lock_owner # NoCall => call_pc[lock_owner] \in {"check", "launching"}
    /\ \A c \in Calls : call_pc[c] \in {"check", "launching"} => lock_owner = c
    /\ \A c \in Calls :
          (instance # <<>> /\ call_pc[c] = "lock" /\ lock_owner # NoCall)
              => call_pc[lock_owner] = "check"

\* one call navigates, one sleeps in a backoff, and a third takes the lock
C20_Witness ==
    \E c1, c2, c3 \in Calls :
        /\ call_pc[c1] = "navigate"
        /\ call_pc[c2] = "backoff"
        /\ call_pc[c3] = "check"
        /\ lock_owner = c3
        /\ instance # <<>>

\* C21: once the handle holds an engine it holds that engine in every later
\* state: no step changes the handle or constructs again, and every call
\* that completes an acquire from then on is given the engine the handle
\* holds.
C21_HandleNeverReplaced ==
    [][ instance # <<>> =>
           /\ instance' = instance
           /\ launches' = launches
           /\ \A c \in Calls :
                 call_pw'[c] # call_pw[c] => call_pw'[c] = instance[1]
      ]_vars

\* the first call built the engine after the server's launch had failed,
\* and two later calls were given that engine without a launch of their own
C21_Witness ==
    \E c1, c2, c3 \in Calls :
        /\ launches = <<Server, c1>>
        /\ instance = <<2>>
        /\ c2 # c1 /\ c3 # c1 /\ c2 # c3
        /\ call_pw[c2] = 2 /\ call_pw[c3] = 2
        /\ call_pc[c2] = "done"
        /\ call_pc[c3] \in AllPagePhases

\* the launches made by call c
LaunchesOf(c) == { i \in 1..Len(launches) : launches[i] = c }

\* C22: a call whose engine construction fails returns at once, holding no
\* engine; a call is in a browser, page or navigation step only while it
\* holds an engine, and a call that has returned never runs again, so the
\* failed call opens no page and navigates nowhere.  No call makes more
\* than one construction attempt.
C22_FailedConstructionReturnsError ==
    /\ [](\A c \in Calls :
            /\ Cardinality(LaunchesOf(c)) <= 1
            /\ call_pc[c] \in AllPagePhases => call_pw[c] # 0
            /\ call_pw[c] = 0 =>
                  call_pc[c] \in {"idle", "lock", "check", "launching", "done"})
    /\ [][\A c \in Calls :
            /\ (call_pc[c] = "launching" /\ call_pc'[c] # "launching"
                   /\ instance' = <<>>)
                  => (call_pc'[c] = "done" /\ call_pw'[c] = 0)
            /\ call_pc[c] = "done" => (call_pc'[c] = "done" /\ call_pw'[c] = call_pw[c])
            /\ LaunchesOf(c) # {} => UNCHANGED LaunchesOf(c)
         ]_vars

\* the first call's construction failed and it returned with no engine;
\* the second call then constructed and went on to navigate
C22_Witness ==
    \E c1, c2 \in Calls :
        /\ launches = <<Server, c1, c2>>
        /\ call_pc[c1] = "done"
        /\ call_pw[c1] = 0
        /\ call_pw[c2] = 3
        /\ call_pc[c2] = "navigate"

(***************************************************************************)
(* Properties of the readiness polls of both operations.                   *)
(***************************************************************************)
\* C23: a readiness poll of 10000 ms at 250 ms evaluates its probes on at
\* most 40 ticks: a probe runs only while fewer than 40 ticks are complete,
\* ticks are counted one at a time with one interval sleep each, and a poll
\* that ends with no tick satisfied has completed exactly 40 ticks, 40
\* being the least number of intervals that cover the wait.
C23_PollIsFortyTicks ==
    /\ [](/\ 40 * 250 >= 10000 /\ 39 * 250 < 10000
          /\ poll_attempt <= 40
          /\ sleeps.interval = poll_attempt
          /\ cpc \in {"probe", "content_check"} => poll_attempt < 40
          /\ (cpc = "serialize" /\ ~page_ready) => poll_attempt = 40
          /\ tick <= 40
          /\ pc = "poll" => tick < 40
          /\ (pc = "after_poll" /\ ~ready) => tick = 40)
    /\ [][ /\ poll_attempt' \in {poll_attempt, poll_attempt + 1}
           /\ pc' = "poll" => tick' \in {tick, tick + 1}
           /\ (pc = "poll" /\ pc' = "after_poll") =>
                 tick' = IF ready' THEN tick ELSE tick + 1
         ]_vars

\* a crawl whose poll ran out: the last probe of the fortieth tick has
\* answered false and the call is about to serialise the page
C23_Witness ==
    /\ cpc = "serialize"
    /\ ~page_ready
    /\ poll_attempt = 40
    /\ sleeps = [interval |-> 40, settle |-> 0]
    /\ navigations = <<"ok">>

ContainerMatches(document, i) ==
    Select(document, FRAMEWORKS[i].main_container) # <<>>

ContentMatches(document, i) ==
    Select(document, FRAMEWORKS[i].text_content_selector) # <<>>

\* the descriptors of which both selectors match the document
BothMatch(document) ==
    { i \in 1..Len(FRAMEWORKS) : ContainerMatches(document, i) /\ ContentMatches(document, i) }

Least(S) == CHOOSE i \in S : \A j \in S : i <= j

\* C25, as stated: a document in which the container selector of some
\* descriptor matches gets framework-tier output.
C25_ContainerMatchGivesFrameworkTier ==
    (ext_pc = "returned" /\ \E i \in 1..Len(FRAMEWORKS) : ContainerMatches(ext_html, i))
        => ext_tier = "framework"

\* C25, amended: the framework tier returns exactly for the documents in
\* which the container selector and the content selector of one descriptor
\* both match; it then returns the filtered content of the first such
\* descriptor, whether or not a semantic selector matches too.  A document
\* in which only containers match goes on to the semantic tier.
C25_FrameworkTierBeforeSemantic ==
    ext_pc = "returned" =>
        LET both == BothMatch(ext_html)
        IN  /\ (both # {}) <=> (ext_tier = "framework")
            /\ both # {} =>
                  LET f == FRAMEWORKS[Least(both)]
                  IN  /\ ext_framework = Least(both)
                      /\ ext_content =
                            Cleaned(Select(ext_html, f.text_content_selector),
                                    f.exclusions \o EXCLUSION_SELECTORS)
            /\ (both = {} /\ apply_semantic_extraction(ext_html) # <<>>) =>
                  ext_tier = "semantic"

\* <main><div role="main">story</div></main>: the semantic tier would give
\* the inner element, the framework tier gives the whole of main
C25_Witness ==
    /\ ext_pc = "returned"
    /\ ext_tier = "framework"
    /\ apply_semantic_extraction(ext_html) # <<>>
    /\ ext_content = ext_html
    /\ ext_content # apply_semantic_extraction(ext_html)[1]

\* C26: a result returned by the framework tier or by the semantic tier is
\* a non-empty string; a tier whose filtered output is empty is passed
\* over.  When no tier has content the input is returned as it is.
C26_TierResultNonEmpty ==
    ext_pc = "returned" =>
        /\ ext_tier \in {"framework", "semantic"} => ext_content # <<>>
        /\ ext_tier = "input" => ext_content = ext_html

\* C27: extract_content is idempotent: applied to the content it returned,
\* it returns that content again.  Where the second application gets as
\* far as the readability library, the library is taken to answer in the
\* way that gives the content back, so that only the framework tier and
\* the semantic tier can tell the two results apart.
C27_Idempotent ==
    ext_pc = "returned" =>
        \E again \in ReadabilityOutcomes(ext_content) :
            extract_content(ext_content, again) = ext_content

\* the descriptors whose container selector matches the document
ContainersMatching(document) ==
    { i \in 1..Len(FRAMEWORKS) : ContainerMatches(document, i) }

\* C30: the framework tier uses the first descriptor whose container
\* selector matches and no other: what the tier returns comes from that
\* descriptor, and when its content selector matches nothing the tier
\* returns nothing and a later tier answers.
C30_OnlyFirstContainerMatch ==
    ext_pc = "returned" =>
        LET cm == ContainersMatching(ext_html)
        IN  /\ ext_tier = "framework" => ext_framework = Least(cm)
            /\ (cm # {} /\ ~ContentMatches(ext_html, Least(cm))) => ext_tier # "framework"

(***************************************************************************)
(* Properties of the backoff and of the pagination of a search call.       *)
(***************************************************************************)
\* C28: a backoff sleep of a search call is followed at once by the next
\* navigation: the step after the sleep is the goto of the next attempt,
\* not a link query or a pagination step, and an attempt that has slept
\* once does not sleep again.
C28_BackoffThenNavigation ==
    [][ \A a \in 1..Len(log) :
           (Len(log') >= a /\ log'[a].backoff # log[a].backoff) =>
               /\ pc' = "goto"
               /\ log[a].backoff = 0
      ]_vars

\* C29: links of page n >= 2 are appended only by the link query that
\* follows a click that succeeded, a loading indicator read as absent and a
\* page number read as n; and they are appended only while the page shown
\* as current is page n.
C29_LinksOnlyFromVerifiedPage ==
    [][ /\ pc' = "page_extract" =>
              /\ pc = "wait_loaded"
              /\ loading_detected
              /\ page_loaded'
              /\ page_num' = page_num /\ page_num >= 2
        /\ (page_num >= 2 /\ links' # links) =>
              /\ pc = "page_extract"
              /\ page_loaded
              /\ displayed_page = page_num
      ]_vars

(***************************************************************************)
(* Properties of the link queries of page 1.                               *)
(***************************************************************************)
\* C31: the fallback query runs exactly when the primary query, filtered,
\* has left no link: the step after the primary query is the fallback
\* query if the filtered set is empty and the pagination if not, and the
\* fallback query is reached from nowhere else.  When the primary set is
\* not empty, the links of page 1 are that set as it is.
C31_FallbackIffPrimaryEmpty ==
    [][ /\ pc = "extract" =>
              LET primary == FirstSeen(PrimaryScript(dom'), {})
              IN  /\ links' = primary
                  /\ pc' = IF primary = <<>> THEN "fallback" ELSE "paginate"
        /\ pc' = "fallback" => (pc = "extract" /\ links' = <<>>)
        /\ pc = "fallback" => (links = <<>> /\ pc' = "paginate")
      ]_vars

\* the primary query matched two anchors and kept one; the call goes on to
\* the pagination with that link, the fallback query not run
C31_Witness ==
    /\ pc = "paginate"
    /\ page_num = FirstExtraPage
    /\ Len(dom) = 2
    /\ Len(links) = 1
    /\ seen = {links[1].href}
    /\ links = FirstSeen(PrimaryScript(dom), {})

(***************************************************************************)
(* Properties of one tick of the crawl poll.                               *)
(***************************************************************************)
\* C32: within a tick of the crawl poll the three probes are taken in their
\* order, from the first.  The tick is ready exactly when the richness
\* check of a probe whose existence check was true is true as well.  A
\* probe that does not exist, or exists and is not rich, passes to the
\* next probe within the same tick; the tick ends not ready only after the
\* last probe.
C32_ProbesInOrderWithinTick ==
    /\ [](cpc \in {"probe", "content_check"} => indicator \in 1..3)
    /\ [][ /\ (cpc = "goto" /\ cpc' = "probe") => indicator' = 1
           /\ cpc = "probe" =>
                 \/ cpc' = "content_check" /\ indicator' = indicator
                                           /\ poll_attempt' = poll_attempt
                 \/ cpc' = "probe" /\ indicator' = indicator + 1
                                   /\ poll_attempt' = poll_attempt
                 \/ indicator = 3 /\ indicator' = 1
                                  /\ poll_attempt' = poll_attempt + 1
           /\ cpc = "content_check" =>
                 \/ page_ready' /\ cpc' = "serialize" /\ indicator' = indicator
                 \/ ~page_ready' /\ cpc' = "probe" /\ indicator' = indicator + 1
                                 /\ poll_attempt' = poll_attempt
                 \/ ~page_ready' /\ indicator = 3 /\ indicator' = 1
                                 /\ poll_attempt' = poll_attempt + 1
           /\ (~page_ready /\ page_ready') => cpc = "content_check"
           /\ cpc' = "content_check" => cpc = "probe"
         ]_vars

\* ready on the first tick by the third probe, the two before it passed over
C32_Witness ==
    /\ cpc = "serialize"
    /\ page_ready
    /\ indicator = 3
    /\ poll_attempt = 0
    /\ sleeps = [interval |-> 0, settle |-> 1]

(***************************************************************************)
(* Two search calls running on one server.  Each call is reduced to what   *)
(* it does with `seen` and `links`: the link query of page 1 over a fresh  *)
(* set, then the link query of page 2 against that set, or no page 2.      *)
(* Both calls search the same site, each on its own page.                  *)
(***************************************************************************)
SearchCalls == {1, 2}

\* `let mut seen = std::collections::HashSet::new()`: a local of the call
SharedCell(c) == 1
SeenCell(c) == c

SearchesInit ==
    /\ envelope = NoEnvelope
    /\ SearchAtRest
    /\ CrawlAtRest
    /\ EngineAtRest
    /\ ExtractAtRest
    /\ site \in [first : Doms, second : Doms]
    /\ call_at = [c \in SearchCalls |-> "page1"]
    /\ call_seen = [c \in SearchCalls |-> {}]
    /\ call_links = [c \in SearchCalls |-> <<>>]
    /\ call_pages = [c \in SearchCalls |-> 0]

\* let mut links = Vec::new(); the primary query and the filter over a new set
FirstPage(c) ==
    /\ call_at[c] = "page1"
    /\ LET f == FilterDedup(PrimaryScript(site.first), {})
       IN  /\ call_seen' = [call_seen EXCEPT ![SeenCell(c)] = f.seen]
           /\ call_links' = [call_links EXCEPT ![c] = f.kept]
    /\ call_pages' = [call_pages EXCEPT ![c] = 1]
    /\ call_at' = [call_at EXCEPT ![c] = "page2"]
    /\ UNCHANGED site
    /\ UNCHANGED <<search_vars, envelope, crawl_vars, engine_vars, extract_vars>>

\* the link query of page 2, filtered against `seen`, links.extend(..)
SecondPage(c) ==
    /\ call_at[c] = "page2"
    /\ LET f == FilterDedup(PrimaryScript(site.second), call_seen[SeenCell(c)])
       IN  /\ call_seen' = [call_seen EXCEPT ![SeenCell(c)] = f.seen]
           /\ call_links' = [call_links EXCEPT ![c] = Extend(@, f.kept)]
    /\ call_pages' = [call_pages EXCEPT ![c] = 2]
    /\ call_at' = [call_at EXCEPT ![c] = "done"]
    /\ UNCHANGED site
    /\ UNCHANGED <<search_vars, envelope, crawl_vars, engine_vars, extract_vars>>

\* max_page = 1, a failed click, or a page that was not verified
NoSecondPage(c) ==
    /\ call_at[c] = "page2"
    /\ call_at' = [call_at EXCEPT ![c] = "done"]
    /\ UNCHANGED <<site, call_seen, call_links, call_pages>>
    /\ UNCHANGED <<search_vars, envelope, crawl_vars, engine_vars, extract_vars>>

SearchesNext ==
    \E c \in SearchCalls :
        \/ FirstPage(c)
        \/ SecondPage(c)
        \/ NoSecondPage(c)

SpecSearches == SearchesInit /\ [][SearchesNext]_vars

\* the entries of the pages call c has queried, in order
Observed(c) ==
    IF call_pages[c] = 0 THEN <<>>
    ELSE IF call_pages[c] = 1 THEN PrimaryScript(site.first)
    ELSE PrimaryScript(site.first) \o PrimaryScript(site.second)

\* C33: under every interleaving of two search calls, the links of a call
\* are the first-seen accepted entries of the pages that call has queried,
\* whatever the other call has done, and its `seen` holds the hrefs of its
\* own links and no other: an entry is never rejected for a href that only
\* the other call has accepted.
C33_SeenAndLinksPerCall ==
    \A c \in SearchCalls :
        /\ call_links[c] = FirstSeen(Observed(c), {})
        /\ call_seen[c] = { call_links[c][i].href : i \in 1..Len(call_links[c]) }

\* call 2 has returned two links from two pages while call 1, which holds
\* the first of them, has yet to query page 2
C33_Witness ==
    /\ call_at[1] = "page2"
    /\ call_at[2] = "done"
    /\ Len(call_links[1]) = 1
    /\ Len(call_links[2]) = 2
    /\ call_links[2][1] = call_links[1][1]
    /\ call_seen[2] # call_seen[1]

\* C34: a navigation that fails with an error, on any attempt, ends the call
\* at once with that error: it is the last navigation of the call and no
\* backoff is slept after it.
C34_GotoErrorReturnsAtOnce ==
    \A k \in 1..Len(log) :
        log[k].resp = "error" =>
            /\ k = Len(log)
            /\ log[k].backoff = 0
            /\ pc \in {"done", "replied"}
            /\ result = Err("goto")

C34_Witness ==
    /\ ReturnedErr
    /\ Len(log) = 2
    /\ log[1].resp = "passed"
    /\ log[1].backoff = 1
    /\ log[2].resp = "error"


\* C35: a construction that fails leaves the handle empty and frees the lock,
\* and a call that finds the handle empty constructs in its turn, however
\* many constructions have failed before it, the server's own included.
C35_FailedConstructionNotCached ==
    [][\A c \in Calls :
          /\ (call_pc[c] = "launching" /\ call_pc'[c] = "done")
                => (instance' = <<>> /\ lock_owner' = NoCall)
          /\ (call_pc[c] = "check" /\ instance = <<>> /\ call_pc'[c] # "check")
                => (call_pc'[c] = "launching" /\ launches' = Append(launches, c))
      ]_vars

\* the server's construction and those of two calls failed, and the third
\* call built the engine it then works with
C35_Witness ==
    \E c1, c2, c3 \in Calls :
        /\ launches = <<Server, c1, c2, c3>>
        /\ call_pc[c1] = "done" /\ call_pw[c1] = 0
        /\ call_pc[c2] = "done" /\ call_pw[c2] = 0
        /\ instance = <<4>>
        /\ call_pw[c3] = 4
        /\ call_pc[c3] \in AllPagePhases

\* C36: the retry loop is left only by the break taken with links in hand:
\* the range 1..=3 is never exhausted, the code after the loop never sees an
\* empty list, no call returns the error of the post-loop check, and an Ok
\* result has at least one link.
C36_LoopLeftOnlyWithLinks ==
    /\ [](/\ attempt <= LastAttempt
          /\ pc \in {"done", "replied"} => result # Err("No links extracted")
          /\ (pc \in {"done", "replied"} /\ result.kind = "Ok")
                => Len(result.links) >= 1)
    /\ [][ (pc # "post_loop" /\ pc' = "post_loop")
              => (pc = "attempt_end" /\ links # <<>> /\ links' = links)
         ]_vars

\* the break is taken on the last attempt with a single link
C36_Witness ==
    /\ pc = "post_loop"
    /\ attempt = LastAttempt
    /\ Len(links) = 1

\* the steps of a search call that evaluate a script in the page
EvalPhases == { "poll", "extract", "fallback", "paginate", "wait_loading",
                "wait_loaded", "page_extract" }

\* C37: past the navigation, a step whose script evaluation fails never ends
\* the call: a failed readiness probe is a tick without the indicator, a
\* failed loading probe does not end the wait early, a failed page-number
\* read is a mismatch, and a failed or malformed link query adds no link.
C37_EvalFailureNeverAborts ==
    [][ (pc \in EvalPhases /\ eval_failure' # "none") =>
          /\ pc' # "done"
          /\ result' = result
          /\ pc = "poll" => (~ready' /\ tick' = tick + 1)
          /\ pc = "wait_loading" =>
                (pc' = "wait_loaded" <=>
                   tick + 1 >= loading_start_wait_ms \div pagination_check_interval_ms)
          /\ (pc = "wait_loaded" /\ eval_failure' = "read") =>
                (~page_loaded' /\ pc' # "page_extract")
          /\ pc = "extract" => (links' = <<>> /\ pc' = "fallback")
          /\ pc = "fallback" => links' = <<>>
          /\ pc = "page_extract" => links' = links
      ]_vars

\* the query of page 2 failed and the call returned the link of page 1
C37_Witness ==
    /\ pc = "replied"
    /\ eval_failure = "query"
    /\ result.kind = "Ok"
    /\ Len(result.links) = 1
    /\ Len(log) = 1
    /\ envelope = Success(result.links)

\* the call has ended in a panic: its handler builds no envelope
Panicked == cpc = "done" /\ cresult.kind = "Panic"

\* C38: when every engine operation eventually returns, a crawl call and a
\* search call, whatever max_page, eventually return a result or an error
\* to their handler, which replies.
C38_EveryCallReturns == <>(pc = "replied" \/ cpc = "replied")

\* every loop of both calls is bounded: a call always comes to an end, by a
\* reply or by the panic of a crawl whose navigation gave no response
C38_EveryCallEnds == <>(pc = "replied" \/ cpc = "replied" \/ Panicked)

====
